---- MODULE Spec2Model ----
(***************************************************************************)
(* The capture state machine of the PhotoShoot component                   *)
(* (src/src/components/photo-shoot.tsx).                                   *)
(*                                                                         *)
(* One step of the model is one event of the single UI thread: a click, a  *)
(* key press, a timer callback or the resolution of the camera request,    *)
(* together with the renders and effects that React runs because of it.    *)
(* Handlers are operators h(s, c): s is the component state the handler's  *)
(* setters update, c is the render the handler closed over (the values it  *)
(* reads).  For a button and for an effect c is the current render; for    *)
(* the keyboard listener it is the render of the last run of the keyboard  *)
(* effect, whose dependency list omits isAutoModeEnabled and               *)
(* selectedTimerIndex.                                                     *)
(*                                                                         *)
(* Environment assumptions: canvas.getContext("2d") yields a context; the  *)
(* focus is never inside a text input (the component renders none); all    *)
(* timeouts are 1000 ms, so they fire in the order they were set.          *)
(***************************************************************************)
EXTENDS Integers, Sequences, FiniteSets, TLC

VARIABLES
    capturedImages,        \* prop: the ordered collection of stills
    filters,               \* useState(DEFAULT_FILTERS)
    isMirrored,            \* useState(true)
    isCameraStarted,       \* useState(false)
    cameraError,           \* useState(null): TRUE when the message is set
    activeFilters,         \* useState(["mirror"]); only membership is read
    isCapturing,           \* useState(false)
    isAutoModeEnabled,     \* useState(false)
    isAutoSequenceActive,  \* useState(false)
    selectedTimerIndex,    \* useState(DEFAULT_TIMER_INDEX), 0-based
    countdown,             \* useState(null)
    hasCapturedRef,        \* useRef(false)
    pauseTimer,            \* the pending 1 s timeout of scheduleNextAutoCapture:
                           \* NULL, or the selectedTimer it closed over
    keyIsAutoModeEnabled,  \* isAutoModeEnabled as seen by the keydown listener
    keySelectedTimerIndex, \* selectedTimerIndex as seen by the keydown listener
    lastOp,                \* history: <<source, operation>> of the last event
    beforeCapture          \* history: the collection before the capture made
                           \* by the last event; kept by an undo, <<>> after
                           \* any other event

vars == <<capturedImages, filters, isMirrored, isCameraStarted, cameraError,
          activeFilters, isCapturing, isAutoModeEnabled, isAutoSequenceActive,
          selectedTimerIndex, countdown, hasCapturedRef, pauseTimer,
          keyIsAutoModeEnabled, keySelectedTimerIndex, lastOp, beforeCapture>>

----------------------------------------------------------------------------
(* Bounds and constants *)

\* The capture quota.  The program imports its value from "@/constants";
\* the model checks a small quota.
MAX_CAPTURE == 3

\* Number of distinguishable camera frames (the stills are opaque data URLs).
NumFrames == 2

Frames == 1..NumFrames

\* countdown === null, and "no pause timeout pending"
NULL == -1

\* The selectable countdown durations, in seconds.
TIMER_OPTIONS == <<1, 3>>

\* 0-based index of the duration selected at mount (the option 3).
DEFAULT_TIMER_INDEX == 1

\* The neutral value of every knob (the values toggleFilter toggles from).
DEFAULT_FILTERS ==
    [brightness |-> 100, contrast |-> 100, grayscale |-> 0, sepia |-> 0,
     saturate |-> 100]

\* The ids of FILTER_CONTROLS other than "reset".
FilterIds == {"mirror", "grayscale", "sepia", "brightness", "contrast", "saturate"}

----------------------------------------------------------------------------
(* The component state as one record, and the values a render derives *)

State ==
    [capturedImages |-> capturedImages, filters |-> filters,
     isMirrored |-> isMirrored, isCameraStarted |-> isCameraStarted,
     cameraError |-> cameraError, activeFilters |-> activeFilters,
     isCapturing |-> isCapturing, isAutoModeEnabled |-> isAutoModeEnabled,
     isAutoSequenceActive |-> isAutoSequenceActive,
     selectedTimerIndex |-> selectedTimerIndex, countdown |-> countdown,
     hasCapturedRef |-> hasCapturedRef, pauseTimer |-> pauseTimer]

\* The render the keydown listener closed over.
KeyClosure ==
    [State EXCEPT !.isAutoModeEnabled = keyIsAutoModeEnabled,
                  !.selectedTimerIndex = keySelectedTimerIndex]

filterDisabled(c) == ~c.isCameraStarted

isMaxCaptureReached(c) == Len(c.capturedImages) >= MAX_CAPTURE

selectedTimer(c) == TIMER_OPTIONS[c.selectedTimerIndex + 1]

\* The parent's prop: the capture quota is met.
canProceedToLayout(c) == Len(c.capturedImages) >= MAX_CAPTURE

\* videoRef.current: the <video> element is rendered unless cameraError is set.
videoRefCurrent(c) == ~c.cameraError

undoDisabled(c) ==
    Len(c.capturedImages) = 0 \/ c.isAutoSequenceActive \/ c.countdown # NULL

timerDisabled(c) ==
    ~c.isCameraStarted \/ c.isAutoSequenceActive \/ c.countdown # NULL

captureDisabled(c) ==
    /\ ~canProceedToLayout(c)
    /\ (~c.isCameraStarted \/ isMaxCaptureReached(c) \/ c.isCapturing)

autoDisabled(c) ==
    \/ ~c.isCameraStarted
    \/ isMaxCaptureReached(c)
    \/ c.isCapturing
    \/ c.countdown # NULL
    \/ c.isAutoSequenceActive

resetDisabled(c) ==
    Len(c.capturedImages) = 0 \/ c.isAutoSequenceActive \/ c.countdown # NULL

\* Mutant of filterButtonDisabled: the buttons stay enabled during a
\* countdown or an auto sequence.
filterButtonDisabledCameraOnly(c) ==
    filterDisabled(c)

\* The disabled attribute of the filter buttons and of the reset-filters button.
filterButtonDisabled(c) ==
    filterDisabled(c) \/ c.isAutoSequenceActive \/ c.countdown # NULL

----------------------------------------------------------------------------
(* Handlers.  h(s, c): s is updated, c is the render the handler reads. *)

\* Mutant of stopAutoSequence: isAutoSequenceActive is left set.
stopAutoSequenceKeepsActive(s) ==
    [s EXCEPT !.countdown = NULL]

stopAutoSequence(s) ==
    [s EXCEPT !.isAutoSequenceActive = FALSE, !.countdown = NULL]

startCapture(s, c) ==
    IF isMaxCaptureReached(c) THEN s
    ELSE [s EXCEPT !.countdown = selectedTimer(c),
                   !.isAutoSequenceActive =
                       IF c.isAutoModeEnabled THEN TRUE ELSE @]

\* Mutant of scheduleNextAutoCapture: the continuation test is off by one.
scheduleNextAutoCaptureOffByOne(s, c) ==
    IF c.isAutoModeEnabled /\ Len(c.capturedImages) < MAX_CAPTURE
    THEN [s EXCEPT !.pauseTimer = selectedTimer(c)]
    ELSE [s EXCEPT !.isAutoSequenceActive = FALSE, !.countdown = NULL]

\* Mutant of scheduleNextAutoCapture: the sequence stops one capture early.
scheduleNextAutoCaptureStopsEarly(s, c) ==
    IF c.isAutoModeEnabled /\ Len(c.capturedImages) < MAX_CAPTURE - 2
    THEN [s EXCEPT !.pauseTimer = selectedTimer(c)]
    ELSE [s EXCEPT !.isAutoSequenceActive = FALSE, !.countdown = NULL]

\* After captureImage: set the 1 s pause timeout (never cleared), or go idle.
\* c.capturedImages is the collection of the render, before the append.
scheduleNextAutoCapture(s, c) ==
    IF c.isAutoModeEnabled /\ Len(c.capturedImages) < MAX_CAPTURE - 1
    THEN [s EXCEPT !.pauseTimer = selectedTimer(c)]
    ELSE [s EXCEPT !.isAutoSequenceActive = FALSE, !.countdown = NULL]

\* Mutant of captureImage: the updater pushes onto prev before copying it,
\* so a doubly invoked updater appends the still twice.
captureImageAppendsTwice(s, c, frame) ==
    IF \/ ~c.isCameraStarted
       \/ ~videoRefCurrent(c)
       \/ isMaxCaptureReached(c)
       \/ c.isCapturing
    THEN s
    ELSE scheduleNextAutoCapture(
             [s EXCEPT !.capturedImages = Append(Append(@, frame), frame),
                       !.isCapturing = FALSE], c)

\* isCapturing is set and cleared within the one synchronous call.
captureImage(s, c, frame) ==
    IF \/ ~c.isCameraStarted
       \/ ~videoRefCurrent(c)
       \/ isMaxCaptureReached(c)
       \/ c.isCapturing
    THEN s
    ELSE scheduleNextAutoCapture(
             [s EXCEPT !.capturedImages = Append(@, frame),
                       !.isCapturing = FALSE], c)

\* Mutant of undoCapture: slice(1) in place of slice(0, -1).
undoCaptureDropsFirst(s, c) ==
    IF undoDisabled(c) THEN s
    ELSE IF Len(c.capturedImages) # 0
         THEN [s EXCEPT !.capturedImages = SubSeq(@, 2, Len(@))]
         ELSE s

\* Mutant of undoCapture: the undoDisabled guard is missing.
undoCaptureUnguarded(s, c) ==
    IF Len(c.capturedImages) # 0
    THEN [s EXCEPT !.capturedImages = SubSeq(@, 1, Len(@) - 1)]
    ELSE s

undoCapture(s, c) ==
    IF undoDisabled(c) THEN s
    ELSE IF Len(c.capturedImages) # 0
         THEN [s EXCEPT !.capturedImages = SubSeq(@, 1, Len(@) - 1)]
         ELSE s

resetCaptures(s, c) ==
    IF resetDisabled(c) THEN s
    ELSE stopAutoSequence([s EXCEPT !.capturedImages = <<>>])

\* Mutant of resetFilters: the highlight set is left as it was.
resetFiltersKeepsActive(s, c) ==
    IF resetDisabled(c) THEN s
    ELSE [s EXCEPT !.filters = DEFAULT_FILTERS]

resetFilters(s, c) ==
    IF resetDisabled(c) THEN s
    ELSE [s EXCEPT !.filters = DEFAULT_FILTERS, !.activeFilters = {"mirror"}]

\* prev.includes(id) ? prev.filter(f => f !== id) : [...prev, id]
Flip(set, id) == IF id \in set THEN set \ {id} ELSE set \cup {id}

\* Mutant of toggleFilter: grayscale and sepia toggle like the other knobs,
\* without clearing each other.
toggleFilterIndependent(s, c, id) ==
    IF filterDisabled(c) THEN s
    ELSE IF id = "mirror" THEN
        [s EXCEPT !.isMirrored = ~@, !.activeFilters = Flip(@, "mirror")]
    ELSE IF id = "grayscale" THEN
        [s EXCEPT !.filters.grayscale = IF @ = 0 THEN 100 ELSE 0,
                  !.activeFilters = Flip(@, "grayscale")]
    ELSE IF id = "sepia" THEN
        [s EXCEPT !.filters.sepia = IF @ = 0 THEN 100 ELSE 0,
                  !.activeFilters = Flip(@, "sepia")]
    ELSE IF id = "brightness" THEN
        [s EXCEPT !.filters.brightness = IF @ = 100 THEN 130 ELSE 100,
                  !.activeFilters = Flip(@, "brightness")]
    ELSE IF id = "contrast" THEN
        [s EXCEPT !.filters.contrast = IF @ = 100 THEN 130 ELSE 100,
                  !.activeFilters = Flip(@, "contrast")]
    ELSE IF id = "saturate" THEN
        [s EXCEPT !.filters.saturate = IF @ = 100 THEN 150 ELSE 100,
                  !.activeFilters = Flip(@, "saturate")]
    ELSE s

toggleFilter(s, c, id) ==
    IF filterDisabled(c) THEN s
    ELSE IF id = "mirror" THEN
        [s EXCEPT !.isMirrored = ~@, !.activeFilters = Flip(@, "mirror")]
    ELSE IF id = "grayscale" THEN
        [s EXCEPT !.filters.grayscale = IF @ = 0 THEN 100 ELSE 0,
                  !.filters.sepia = 0,
                  !.activeFilters =
                      IF "grayscale" \in @
                      THEN @ \ {"sepia", "grayscale"}
                      ELSE (@ \ {"sepia", "grayscale"}) \cup {"grayscale"}]
    ELSE IF id = "sepia" THEN
        [s EXCEPT !.filters.sepia = IF @ = 0 THEN 100 ELSE 0,
                  !.filters.grayscale = 0,
                  !.activeFilters =
                      IF "sepia" \in @
                      THEN @ \ {"sepia", "grayscale"}
                      ELSE (@ \ {"sepia", "grayscale"}) \cup {"sepia"}]
    ELSE IF id = "brightness" THEN
        [s EXCEPT !.filters.brightness = IF @ = 100 THEN 130 ELSE 100,
                  !.activeFilters = Flip(@, "brightness")]
    ELSE IF id = "contrast" THEN
        [s EXCEPT !.filters.contrast = IF @ = 100 THEN 130 ELSE 100,
                  !.activeFilters = Flip(@, "contrast")]
    ELSE IF id = "saturate" THEN
        [s EXCEPT !.filters.saturate = IF @ = 100 THEN 150 ELSE 100,
                  !.activeFilters = Flip(@, "saturate")]
    ELSE s

toggleAutoMode(s, c) ==
    IF autoDisabled(c) THEN s
    ELSE LET t == [s EXCEPT !.isAutoModeEnabled = ~@]
         IN  IF c.isAutoSequenceActive THEN stopAutoSequence(t) ELSE t

\* Mutant of cycleTimer: the timerDisabled guard is missing.
cycleTimerUnguarded(s, c) ==
    [s EXCEPT !.selectedTimerIndex = (@ + 1) % Len(TIMER_OPTIONS)]

cycleTimer(s, c) ==
    IF timerDisabled(c) THEN s
    ELSE [s EXCEPT !.selectedTimerIndex = (@ + 1) % Len(TIMER_OPTIONS)]

\* The branch the Space/Enter key and the main button dispatch to.
primaryBranch(c) ==
    IF canProceedToLayout(c) THEN "goToLayoutScreen"
    ELSE IF c.isAutoSequenceActive THEN "stopAutoSequence"
    ELSE IF c.countdown = NULL THEN "startCapture"
    ELSE "cancelCountdown"

\* goToLayoutScreen belongs to the parent and sets no state of the component.
primaryAction(s, c) ==
    IF canProceedToLayout(c) THEN s
    ELSE IF c.isAutoSequenceActive THEN stopAutoSequence(s)
    ELSE IF c.countdown = NULL THEN startCapture(s, c)
    ELSE [s EXCEPT !.countdown = NULL]

----------------------------------------------------------------------------
(* Effects *)

\* The countdown effect for render c.  For countdown > 0 it also sets the
\* tick timeout, which is pending exactly while countdown > 0: the cleanup
\* of the effect clears it whenever countdown changes.
countdownEffect(s, c, frame) ==
    IF c.countdown = NULL THEN [s EXCEPT !.hasCapturedRef = FALSE]
    ELSE IF c.countdown > 0 THEN [s EXCEPT !.hasCapturedRef = FALSE]
    ELSE IF c.countdown = 0 /\ ~s.hasCapturedRef
         THEN captureImage([s EXCEPT !.hasCapturedRef = TRUE], c, frame)
         ELSE s

\* The effect that stops the auto sequence at the quota, for render c.
maxCaptureEffect(s, c) ==
    IF isMaxCaptureReached(c) /\ c.isAutoSequenceActive
    THEN stopAutoSequence(s)
    ELSE s

MaxCaptureDeps(c) ==
    <<Len(c.capturedImages), isMaxCaptureReached(c), c.isAutoSequenceActive>>

\* The state whose change causes a render (refs and timeouts do not).
Rendered(s) == [s EXCEPT !.hasCapturedRef = FALSE, !.pauseTimer = NULL]

\* The effects of render new, run in declaration order after render old.
RunEffects(old, new, frame) ==
    LET afterMax == IF MaxCaptureDeps(new) # MaxCaptureDeps(old)
                    THEN maxCaptureEffect(new, new) ELSE new
    IN  IF new.countdown # old.countdown
        THEN countdownEffect(afterMax, new, frame) ELSE afterMax

\* Render and run effects until no effect sets state.
RECURSIVE Settle(_, _, _)
Settle(old, new, frame) ==
    LET r == RunEffects(old, new, frame)
    IN  IF Rendered(r) = Rendered(new) THEN r ELSE Settle(new, r, frame)

\* The dependencies of the keyboard effect that are state of this model.
KeyboardDeps(s) ==
    <<s.capturedImages, s.isCameraStarted, s.filters, s.isMirrored,
      s.isCapturing, s.isAutoSequenceActive, s.countdown>>

\* The event's outcome s becomes the state; the keydown listener is bound
\* again only if a dependency of the keyboard effect changed.
Commit(s, op) ==
    /\ capturedImages' = s.capturedImages
    /\ filters' = s.filters
    /\ isMirrored' = s.isMirrored
    /\ isCameraStarted' = s.isCameraStarted
    /\ cameraError' = s.cameraError
    /\ activeFilters' = s.activeFilters
    /\ isCapturing' = s.isCapturing
    /\ isAutoModeEnabled' = s.isAutoModeEnabled
    /\ isAutoSequenceActive' = s.isAutoSequenceActive
    /\ selectedTimerIndex' = s.selectedTimerIndex
    /\ countdown' = s.countdown
    /\ hasCapturedRef' = s.hasCapturedRef
    /\ pauseTimer' = s.pauseTimer
    /\ IF KeyboardDeps(s) # KeyboardDeps(State)
       THEN /\ keyIsAutoModeEnabled' = s.isAutoModeEnabled
            /\ keySelectedTimerIndex' = s.selectedTimerIndex
       ELSE UNCHANGED <<keyIsAutoModeEnabled, keySelectedTimerIndex>>
    /\ lastOp' = IF Len(s.capturedImages) > Len(capturedImages)
                 THEN <<op[1], "captureImage">> ELSE op
    /\ beforeCapture' = IF Len(s.capturedImages) > Len(capturedImages)
                        THEN capturedImages
                        ELSE IF op[2] = "undoCapture" THEN beforeCapture
                        ELSE <<>>

\* An event whose handler leaves state s, while the camera shows a frame of
\* F: render, run the effects, commit.
Event(s, op, F) == \E frame \in F : Commit(Settle(State, s, frame), op)

----------------------------------------------------------------------------
(* Initial state: mounted, effects run, camera request pending *)

Init ==
    /\ capturedImages = <<>>
    /\ filters = DEFAULT_FILTERS
    /\ isMirrored = TRUE
    /\ isCameraStarted = FALSE
    /\ cameraError = FALSE
    /\ activeFilters = {"mirror"}
    /\ isCapturing = FALSE
    /\ isAutoModeEnabled = FALSE
    /\ isAutoSequenceActive = FALSE
    /\ selectedTimerIndex = DEFAULT_TIMER_INDEX
    /\ countdown = NULL
    /\ hasCapturedRef = FALSE
    /\ pauseTimer = NULL
    /\ keyIsAutoModeEnabled = FALSE
    /\ keySelectedTimerIndex = DEFAULT_TIMER_INDEX
    /\ lastOp = <<"mount", "mount">>
    /\ beforeCapture = <<>>

----------------------------------------------------------------------------
(* Events.  F is the set of frames the camera may show. *)

\* getUserMedia resolves: the stream is attached to the rendered <video>.
CameraGranted(F) ==
    /\ ~isCameraStarted /\ ~cameraError
    /\ Event([State EXCEPT !.isCameraStarted = TRUE, !.cameraError = FALSE],
             <<"camera", "granted">>, F)

\* getUserMedia rejects: the message is set, and no retry follows.
CameraDenied(F) ==
    /\ ~isCameraStarted /\ ~cameraError
    /\ Event([State EXCEPT !.cameraError = TRUE], <<"camera", "denied">>, F)

\* The main button; a disabled button dispatches no click.
ClickCapture(F) ==
    /\ ~captureDisabled(State)
    /\ Event(primaryAction(State, State), <<"button", primaryBranch(State)>>, F)

\* Space or Enter, handled by the listener of the last keyboard effect.
KeySpaceEnter(F) ==
    Event(primaryAction(State, KeyClosure),
          <<"key", primaryBranch(KeyClosure)>>, F)

\* Backspace or Delete, or the undo button (disabled by undoDisabled).
UndoCapture(F) ==
    Event(undoCapture(State, KeyClosure), <<"key", "undoCapture">>, F)

\* Escape, or the reset button (disabled by resetDisabled).
ResetCaptures(F) ==
    Event(resetCaptures(State, KeyClosure), <<"key", "resetCaptures">>, F)

\* The key a, or the auto button (disabled by autoDisabled).
ToggleAutoMode(F) ==
    Event(toggleAutoMode(State, KeyClosure), <<"key", "toggleAutoMode">>, F)

\* The timer button (disabled by timerDisabled).
CycleTimer(F) ==
    Event(cycleTimer(State, State), <<"button", "cycleTimer">>, F)

\* The tick timeout of the countdown effect.  It was set after any pending
\* pause timeout and has the same delay, so it fires after it.
CountdownTick(F) ==
    /\ countdown # NULL /\ countdown > 0
    /\ pauseTimer = NULL
    /\ Event([State EXCEPT !.countdown = IF @ # NULL THEN @ - 1 ELSE NULL],
             <<"timer", "tick">>, F)

\* The pause timeout of scheduleNextAutoCapture.
PauseTimerFire(F) ==
    /\ pauseTimer # NULL
    /\ Event([State EXCEPT !.hasCapturedRef = FALSE, !.countdown = pauseTimer,
                           !.pauseTimer = NULL],
             <<"timer", "pause">>, F)

\* React runs the countdown effect again although countdown is unchanged
\* (Strict Mode, Fast Refresh).
RerunCountdownEffect(F) ==
    \E frame \in F :
        Commit(Settle(State, countdownEffect(State, State, frame), frame),
               <<"effect", "countdown">>)

\* A filter button.
ClickFilter(id, F) ==
    /\ ~filterButtonDisabled(State)
    /\ Event(toggleFilter(State, State, id), <<"button", id>>, F)

\* The reset-filters button.
ClickResetFilters(F) ==
    /\ ~filterButtonDisabled(State)
    /\ Event(resetFilters(State, State), <<"button", "resetFilters">>, F)

\* Every event but those of the filter buttons.
Next ==
    \/ CameraGranted(Frames)
    \/ CameraDenied(Frames)
    \/ ClickCapture(Frames)
    \/ KeySpaceEnter(Frames)
    \/ UndoCapture(Frames)
    \/ ResetCaptures(Frames)
    \/ ToggleAutoMode(Frames)
    \/ CycleTimer(Frames)
    \/ CountdownTick(Frames)
    \/ PauseTimerFire(Frames)
    \/ RerunCountdownEffect(Frames)

\* The capture state machine, the filters left at their defaults.
Spec == Init /\ [][Next]_vars

\* The filter claims do not read the stills: one frame.
OneFrame == {1}

\* Every event, the filter buttons included.
NextFilters ==
    \/ CameraGranted(OneFrame)
    \/ CameraDenied(OneFrame)
    \/ ClickCapture(OneFrame)
    \/ KeySpaceEnter(OneFrame)
    \/ UndoCapture(OneFrame)
    \/ ResetCaptures(OneFrame)
    \/ ToggleAutoMode(OneFrame)
    \/ CycleTimer(OneFrame)
    \/ CountdownTick(OneFrame)
    \/ PauseTimerFire(OneFrame)
    \/ RerunCountdownEffect(OneFrame)
    \/ \E id \in FilterIds : ClickFilter(id, OneFrame)
    \/ ClickResetFilters(OneFrame)

SpecFilters == Init /\ [][NextFilters]_vars

\* The events of Next, the camera showing one frame.
NextOneFrame ==
    \/ CameraGranted(OneFrame)
    \/ CameraDenied(OneFrame)
    \/ ClickCapture(OneFrame)
    \/ KeySpaceEnter(OneFrame)
    \/ UndoCapture(OneFrame)
    \/ ResetCaptures(OneFrame)
    \/ ToggleAutoMode(OneFrame)
    \/ CycleTimer(OneFrame)
    \/ CountdownTick(OneFrame)
    \/ PauseTimerFire(OneFrame)
    \/ RerunCountdownEffect(OneFrame)

\* The browser fires every timeout that stays set: the tick timeout and the
\* pause timeout.  Progress does not read the stills: one frame.
SpecFair ==
    /\ Init /\ [][NextOneFrame]_vars
    /\ WF_vars(CountdownTick(OneFrame))
    /\ WF_vars(PauseTimerFire(OneFrame))

----------------------------------------------------------------------------
(* Properties *)

Source(op) == op[1]
Operation(op) == op[2]

\* The steps of the tick timeout and of the pause timeout.
IsTick(op) == Source(op) = "timer" /\ Operation(op) # "pause"

\* C1: in every reachable state the captured-image collection holds at most
\* MAX_CAPTURE images.
C1_LengthAtMostMax == Len(capturedImages) <= MAX_CAPTURE

\* C1 witness: a capture has just filled the collection to the quota.
C1_Witness ==
    /\ Len(capturedImages) = MAX_CAPTURE
    /\ lastOp = <<"timer", "captureImage">>

\* C2: every tick that takes the countdown from 1 to 0 appends exactly one
\* image, and a redundant run of the countdown effect appends none.
C2_ExactlyOneCapturePerCountdown ==
    [][/\ (countdown = 1 /\ pauseTimer = NULL /\ IsTick(lastOp'))
           => Len(capturedImages') = Len(capturedImages) + 1
       /\ (Source(lastOp') = "effect")
           => capturedImages' = capturedImages]_vars

\* C3: right after a stop or a cancel, any event other than a new capture
\* request leaves the countdown null and appends no image.
C3_StoppedStaysStopped ==
    [][(/\ Operation(lastOp) \in {"stopAutoSequence", "cancelCountdown"}
        /\ Operation(lastOp') # "startCapture")
       => /\ countdown' = NULL
          /\ Len(capturedImages') <= Len(capturedImages)]_vars

\* C4: a reset invoked while a countdown is in progress clears the
\* countdown, leaves the sequence idle and empties the collection.
C4_ResetDuringCountdownClears ==
    [][(countdown # NULL /\ Operation(lastOp') = "resetCaptures")
       => /\ countdown' = NULL
          /\ ~isAutoSequenceActive'
          /\ capturedImages' = <<>>]_vars

\* C5: the auto-mode toggle invoked while an auto sequence is active
\* disables auto mode, leaves nothing scheduled and returns to idle.
C5_ToggleAutoHaltsSequence ==
    [][(isAutoSequenceActive /\ Operation(lastOp') = "toggleAutoMode")
       => /\ ~isAutoModeEnabled'
          /\ countdown' = NULL
          /\ ~isAutoSequenceActive'
          /\ pauseTimer' = NULL]_vars

\* C6: while the camera has not started, a capture request through the
\* main button or the Space/Enter key leaves the countdown null and the
\* auto sequence inactive.
C6_NoCaptureRequestWithoutCamera ==
    [][(/\ ~isCameraStarted
        /\ Source(lastOp') \in {"button", "key"}
        /\ Operation(lastOp') = "startCapture")
       => (countdown' = NULL /\ ~isAutoSequenceActive')]_vars

\* The situation of C7: timer option 3, auto mode off, camera started,
\* collection below the quota.
C7_Pre ==
    /\ selectedTimer(State) = 3
    /\ ~isAutoModeEnabled
    /\ isCameraStarted
    /\ Len(capturedImages) < MAX_CAPTURE

\* C7: in that situation a capture request sets the countdown to 3, each
\* tick lowers it by one, and the tick from 1 appends exactly one image and
\* leaves the state idle.
C7_ManualCountdownFromThree ==
    [][/\ (C7_Pre /\ countdown = NULL /\ ~isAutoSequenceActive
              /\ Operation(lastOp') = "startCapture")
           => countdown' = 3
       /\ (C7_Pre /\ countdown \in {2, 3} /\ IsTick(lastOp'))
           => countdown' = countdown - 1
       /\ (C7_Pre /\ countdown = 1 /\ IsTick(lastOp'))
           => /\ Len(capturedImages') = Len(capturedImages) + 1
              /\ countdown' = NULL
              /\ ~isAutoSequenceActive']_vars

\* C8: with MAX_CAPTURE images the state is idle and nothing is scheduled:
\* the countdown is null, no auto sequence is active, no pause timeout is
\* pending.
C8_IdleAtMax ==
    Len(capturedImages) = MAX_CAPTURE
        => /\ countdown = NULL
           /\ ~isAutoSequenceActive
           /\ pauseTimer = NULL

\* C8 witness: in auto mode, a capture has just brought the collection to
\* the quota.
C8_Witness ==
    /\ Len(capturedImages) = MAX_CAPTURE
    /\ isAutoModeEnabled
    /\ lastOp = <<"timer", "captureImage">>

\* What an undo may do: nothing, or drop the last entry.
UndoKeepsPrefix ==
    Operation(lastOp') = "undoCapture"
        => \/ capturedImages' = capturedImages
           \/ /\ capturedImages # <<>>
              /\ capturedImages' =
                     SubSeq(capturedImages, 1, Len(capturedImages) - 1)

\* C9 as stated: an undo invoked right after a capture returns the
\* collection to what it was before that capture, and an undo never
\* removes or reorders any entry other than the last.
C9_UndoAfterAnyCapture ==
    [][/\ (Operation(lastOp) = "captureImage"
              /\ Operation(lastOp') = "undoCapture")
           => capturedImages' = beforeCapture
       /\ UndoKeepsPrefix]_vars

\* C9 amended: an undo invoked right after a capture, while no countdown
\* or auto sequence is in progress, returns the collection to what it was
\* before that capture; an undo never removes or reorders any entry other
\* than the last.
C9_UndoInvertsCaptureWhenIdle ==
    [][/\ (Operation(lastOp) = "captureImage"
              /\ countdown = NULL /\ ~isAutoSequenceActive
              /\ Operation(lastOp') = "undoCapture")
           => capturedImages' = beforeCapture
       /\ UndoKeepsPrefix]_vars

\* C9 witness: an undo right after a capture has restored a collection of
\* several distinct stills.
C9_Witness ==
    /\ Operation(lastOp) = "undoCapture"
    /\ Len(capturedImages) >= 2
    /\ capturedImages = beforeCapture
    /\ capturedImages[1] # capturedImages[2]

\* C10: grayscale and sepia are never both non-zero.
C10_GrayscaleSepiaExclusive ==
    ~(filters.grayscale # 0 /\ filters.sepia # 0)

\* C10 witness: sepia was just switched on with another filter active.
C10_Witness ==
    /\ lastOp = <<"button", "sepia">>
    /\ filters.sepia # 0
    /\ activeFilters \ {"mirror", "sepia"} # {}

\* The user's events: clicks and key presses.
UserInput(op) == Source(op) \in {"button", "key"}

\* An auto sequence under way with no user input since its last timer
\* event: camera started, auto mode enabled, a countdown or a pause pending.
C11_Running ==
    /\ isCameraStarted
    /\ isAutoModeEnabled
    /\ (countdown # NULL \/ pauseTimer # NULL)
    /\ ~UserInput(lastOp)

C11_Done ==
    /\ Len(capturedImages) = MAX_CAPTURE
    /\ countdown = NULL
    /\ ~isAutoSequenceActive

\* C11: with the camera started and auto mode enabled, a sequence under way
\* that the user leaves alone reaches exactly MAX_CAPTURE images with the
\* countdown null and no auto sequence active, the timeouts firing fairly.
C11_AutoSequenceCompletes ==
    C11_Running ~> (C11_Done \/ UserInput(lastOp))

\* C11 witness: an auto sequence pauses between two captures, one short of
\* the quota.
C11_Witness ==
    /\ isAutoModeEnabled
    /\ isAutoSequenceActive
    /\ pauseTimer # NULL
    /\ Len(capturedImages) = MAX_CAPTURE - 1
    /\ lastOp = <<"timer", "captureImage">>

\* C12: a capture request that starts a countdown while auto mode is
\* enabled leaves isAutoSequenceActive true, and a pause timeout (the next
\* countdown) is set only while isAutoSequenceActive is true.
C12_AutoRequestActivatesSequence ==
    [][/\ (/\ isAutoModeEnabled
           /\ UserInput(lastOp')
           /\ Operation(lastOp') = "startCapture"
           /\ countdown' # NULL)
           => isAutoSequenceActive'
       /\ (pauseTimer = NULL /\ pauseTimer' # NULL)
           => isAutoSequenceActive']_vars

\* C13: while isAutoSequenceActive is true something further is scheduled:
\* a tick timeout (countdown above 0) or a pause timeout.
C13_ActiveImpliesScheduled ==
    isAutoSequenceActive
        => \/ (countdown # NULL /\ countdown > 0)
           \/ pauseTimer # NULL

\* C13 witness: the sequence is active during the pause, countdown at 0.
C13_Witness ==
    /\ isAutoSequenceActive
    /\ countdown = 0
    /\ pauseTimer # NULL

\* C14: an event with the camera not started appends no image, and a tick
\* that takes the countdown from 1 to 0 with the camera not started leaves
\* the countdown null.
C14_NoCaptureWithoutCamera ==
    [][/\ ~isCameraStarted => capturedImages' = capturedImages
       /\ (~isCameraStarted /\ countdown = 1 /\ IsTick(lastOp'))
           => countdown' = NULL]_vars

\* C15: an undo invoked with the collection empty, a countdown non-null or
\* an auto sequence active leaves the collection, the countdown and
\* isAutoSequenceActive unchanged.
C15_DisabledUndoIsNoOp ==
    [][(/\ Operation(lastOp') = "undoCapture"
        /\ \/ capturedImages = <<>>
           \/ countdown # NULL
           \/ isAutoSequenceActive)
       => UNCHANGED <<capturedImages, countdown, isAutoSequenceActive>>]_vars

\* C15 witness: an undo was invoked during a countdown with stills present.
C15_Witness ==
    /\ Operation(lastOp) = "undoCapture"
    /\ countdown # NULL
    /\ capturedImages # <<>>

\* The state in which the filter and timer controls are disabled.
Busy == ~isCameraStarted \/ countdown # NULL \/ isAutoSequenceActive

\* C16: no step taken while the camera has not started, or while a countdown
\* or an auto sequence is in progress, changes the filter settings, the
\* mirror flag or the active-filter set.
C16_FiltersFrozenWhileBusy ==
    [][Busy => UNCHANGED <<filters, isMirrored, activeFilters>>]_vars

\* C16 witness: a second still was taken under filters and a mirror flag
\* that were changed before the sequence began.
C16_Witness ==
    /\ Operation(lastOp) = "captureImage"
    /\ Len(capturedImages) >= 2
    /\ filters # DEFAULT_FILTERS
    /\ ~isMirrored

CaptureState ==
    <<capturedImages, countdown, isAutoSequenceActive, pauseTimer,
      hasCapturedRef, isCapturing>>

PrimaryOps ==
    {"goToLayoutScreen", "stopAutoSequence", "startCapture", "cancelCountdown"}

\* C18: the primary action dispatches on the current state: proceed at
\* canProceedToLayout, changing no capture state; else stop an active
\* sequence (countdown null, isAutoSequenceActive false); else, with
\* countdown null, start a countdown seeded with the selected timer; else
\* cancel the countdown only.
C18_PrimaryActionDispatch ==
    [][(UserInput(lastOp') /\ Operation(lastOp') \in PrimaryOps) =>
        IF canProceedToLayout(State)
        THEN /\ Operation(lastOp') = "goToLayoutScreen"
             /\ UNCHANGED CaptureState
        ELSE IF isAutoSequenceActive
        THEN /\ Operation(lastOp') = "stopAutoSequence"
             /\ countdown' = NULL
             /\ ~isAutoSequenceActive'
        ELSE IF countdown = NULL
        THEN /\ Operation(lastOp') = "startCapture"
             /\ countdown' = selectedTimer(State)
        ELSE /\ Operation(lastOp') = "cancelCountdown"
             /\ countdown' = NULL
             /\ UNCHANGED <<capturedImages, isAutoSequenceActive>>]_vars

\* C19: each of grayscale, sepia, brightness, contrast and saturate is in
\* activeFilters if and only if its value in filters differs from its
\* value in DEFAULT_FILTERS.
C19_ActiveFiltersMatchSettings ==
    \A id \in FilterIds \ {"mirror"} :
        id \in activeFilters <=> filters[id] # DEFAULT_FILTERS[id]

\* C19 witness: the filters were reset after several had been switched on.
C19_Witness ==
    /\ lastOp = <<"button", "resetFilters">>
    /\ filters = DEFAULT_FILTERS
    /\ capturedImages # <<>>
    /\ ~isMirrored

\* C20: "mirror" is in activeFilters if and only if isMirrored is true.
C20_MirrorHighlightMatchesFlag ==
    "mirror" \in activeFilters <=> isMirrored

\* C21: resetFilters invoked with the camera started and no countdown or
\* auto sequence in progress, whatever the number of captured images, sets
\* filters to DEFAULT_FILTERS and leaves the collection, the countdown and
\* isAutoSequenceActive unchanged.
C21_ResetFiltersRestoresDefaults ==
    [][(~Busy /\ Operation(lastOp') = "resetFilters") =>
        /\ filters' = DEFAULT_FILTERS
        /\ UNCHANGED <<capturedImages, countdown, isAutoSequenceActive>>]_vars

====
